---- MODULE Spec2Model ----
(***************************************************************************)
(* A model of evadb/udfs/chatgpt.py: the ChatGPT UDF.                      *)
(*                                                                         *)
(* One adapter instance is driven by a single-threaded host: setup and     *)
(* forward calls never overlap.  A forward call is split at its remote     *)
(* calls: forward_call (lines 77-111), one forward_row step per attempt of *)
(* openai.ChatCompletion.create (lines 113-142, with the retry wrapper of  *)
(* line 80), forward_return (lines 144-146).  exit is the frame leaving    *)
(* the host's stack (its locals are gone).  Python indices are 0-based,    *)
(* the sequences here are 1-based: Python row 0 is rows[1], Python column  *)
(* 2 is row[3].                                                            *)
(***************************************************************************)
EXTENDS Integers, Sequences, FiniteSets, TLC

VARIABLES
    model,          \* self.model
    temperature,    \* self.temperature
    config_key,     \* ConfigurationManager's value of (third_party, OPENAI_KEY)
    environ_key,    \* os.environ's OPENAI_KEY
    api_key,        \* openai.api_key (a module global: it outlives forward)
    pc,             \* where the host is: idle, or inside / just after a call
    setup_args,     \* the positional arguments of the setup call in progress
    text_df,        \* forward's argument
    prompt,         \* forward's local prompt
    results,        \* forward's local results
    tries_left,     \* retry's _tries for the row being processed
    mock,           \* the remote's behaviour for each row started so far
    calls,          \* the remote requests issued by this forward call
    naps,           \* the time.sleep calls made by retry in this forward call
    df,             \* forward's return value
    error,          \* the exception class a call raised to the host
    last_setup,     \* history: arguments of the most recent successful setup
    key_changed     \* history: this call resolved another key than the last

vars == <<model, temperature, config_key, environ_key, api_key, pc, setup_args,
          text_df, prompt, results, tries_left, mock, calls, naps, df, error,
          last_setup, key_changed>>

\* ---------------------------------------------------------------- bounds

MaxRows == 2

\* ------------------------------------------------------------- constants

tries == 6
delay == 20

\* Python's None, and a variable missing from os.environ.
NoneVal == "<None>"
Absent == "<absent>"
NoError == "<no error>"

VALID_CHAT_COMPLETION_MODEL_with_extra ==
    {"gpt-4", "gpt-4-0314", "gpt-4-32k", "gpt-4-32k-0314", "gpt-3.5-turbo",
     "gpt-3.5-turbo-0301", "text-davinci-003"}

VALID_CHAT_COMPLETION_MODEL ==
    {"gpt-4", "gpt-4-0314", "gpt-4-32k", "gpt-4-32k-0314", "gpt-3.5-turbo",
     "gpt-3.5-turbo-0301"}

\* ---------------------------------------------------------------- inputs

ModelArgs == VALID_CHAT_COMPLETION_MODEL \cup {"text-davinci-003", "gpt-5"}
TemperatureArgs == {0, 1}

\* setup(*args): no argument, the model, or the model and the temperature.
SetupArgs ==
    {<<>>} \cup {<<m>> : m \in ModelArgs}
           \cup {<<m, t>> : m \in ModelArgs, t \in TemperatureArgs}

ConfigValues == {NoneVal, "", "sk-config-A", "sk-config-B"}
EnvironValues == {Absent, "", "sk-environ"}

\* The rows a batch is made of; a batch of nc columns keeps the first nc cells.
RowValues ==
    {<<"summarize", "doc A", "Be terse.">>,
     <<"translate", "doc B", "Be formal.">>}

Batches ==
    UNION {UNION {{[columns |-> nc, rows |-> [i \in 1..n |-> SubSeq(f[i], 1, nc)]] :
                        f \in [1..n -> RowValues]} : n \in 0..MaxRows} : nc \in 1..3}

\* What the remote does with the attempts made for one row: it raises exc on
\* the first `fails` attempts and answers from then on.
RateLimitError == [cls |-> "RateLimitError", msg |-> "Rate limit reached"]
Timeout == [cls |-> "Timeout", msg |-> "Request timed out"]
NoException == [cls |-> NoError, msg |-> ""]

Scripts ==
    {[fails |-> 0, exc |-> NoException],
     [fails |-> 2, exc |-> RateLimitError],
     [fails |-> tries, exc |-> Timeout]}

NoDf == [columns |-> 0, rows |-> <<>>]
NoResult == [columns |-> <<>>, rows |-> <<>>]

\* ----------------------------------------------------------------- setup

\* The defaults of setup's signature (lines 47-48).
setup_model(args) == IF Len(args) >= 1 THEN args[1] ELSE "gpt-3.5-turbo"

setup_temperature(args) == IF Len(args) >= 2 THEN args[2] ELSE 0

\* The assert of line 50: whether setup raises AssertionError.
setup_raises(args) == setup_model(args) \notin VALID_CHAT_COMPLETION_MODEL

\* A setup that stores the model before validating it.
self_after_setup_assign_first(args) ==
    IF setup_raises(args)
    THEN [model |-> setup_model(args), temperature |-> temperature]
    ELSE [model |-> setup_model(args), temperature |-> setup_temperature(args)]

\* self.model and self.temperature after setup(*args): the assert comes first,
\* so a raising setup assigns nothing.
self_after_setup(args) ==
    IF setup_raises(args)
    THEN [model |-> model, temperature |-> temperature]
    ELSE [model |-> setup_model(args), temperature |-> setup_temperature(args)]

\* --------------------------------------------------- credential resolution

\* ConfigurationManager().get_value("third_party", "OPENAI_KEY")
get_value == config_key

\* os.environ.get("OPENAI_KEY", default)
environ_get(default) == IF environ_key = Absent THEN default ELSE environ_key

\* A resolution that keeps a key an earlier call left in openai.api_key.
resolve_api_key_cached ==
    IF api_key \notin {NoneVal, ""}
    THEN [key |-> api_key, error |-> NoError]
    ELSE IF get_value = NoneVal
    THEN [key |-> NoneVal, error |-> "TypeError"]
    ELSE LET key == IF Len(get_value) = 0 THEN environ_get("") ELSE get_value
         IN  [key |-> key,
              error |-> IF Len(key) # 0 THEN NoError ELSE "AssertionError"]

\* A resolution without the assert of lines 95-97.
resolve_api_key_unchecked ==
    IF get_value = NoneVal
    THEN [key |-> NoneVal, error |-> "TypeError"]
    ELSE [key |-> IF Len(get_value) = 0 THEN environ_get("") ELSE get_value,
          error |-> NoError]

\* Lines 91-97: the value openai.api_key is left with and the exception
\* raised, if any.  len(None) raises TypeError.
resolve_api_key ==
    IF get_value = NoneVal
    THEN [key |-> NoneVal, error |-> "TypeError"]
    ELSE LET key == IF Len(get_value) = 0 THEN environ_get("") ELSE get_value
         IN  [key |-> key,
              error |-> IF Len(key) # 0 THEN NoError ELSE "AssertionError"]

\* ---------------------------------------------------- column interpretation

\* Lines 99 and 102: column 0 either way.
queries(t) == [i \in 1..Len(t.rows) |-> t.rows[i][1]]

\* A content that is always column 0.
content_first_column(t) == [i \in 1..Len(t.rows) |-> t.rows[i][1]]

\* Lines 100 and 103: column 1 when there is one, else column 0.
content(t) ==
    [i \in 1..Len(t.rows) |-> IF t.columns > 1 THEN t.rows[i][2] ELSE t.rows[i][1]]

\* text_df.iloc[0, 2] on a batch without rows raises IndexError.
prompt_raises(t) == t.columns > 2 /\ Len(t.rows) = 0

\* A prompt taken from the last row.
prompt_of_last_row(t) == IF t.columns > 2 THEN t.rows[Len(t.rows)][3] ELSE NoneVal

\* Lines 105-107, for a batch on which line 107 does not raise.
prompt_of(t) == IF t.columns > 2 THEN t.rows[1][3] ELSE NoneVal

\* ------------------------------------------------------------ the request

\* Lines 120-125.
def_sys_prompt_message(p) ==
    [role |-> "system",
     content |-> IF p # NoneVal
                 THEN p
                 ELSE "You are a helpful assistant that accomplishes user tasks."]

\* Lines 127-139.
messages(p, query, cont) ==
    <<def_sys_prompt_message(p),
      [role |-> "user", content |-> "Here is some context : " \o cont],
      [role |-> "user", content |-> "Complete the following task: " \o query]>>

\* Lines 114-118.
params(p, query, cont) ==
    [model |-> model, temperature |-> temperature,
     messages |-> messages(p, query, cont)]

\* ------------------------------------------------------------- the remote

\* The text the remote answers a request with: a function of the request.
Reply(kwargs) ==
    "[" \o kwargs.model \o "] " \o kwargs.messages[3].content
        \o " / " \o kwargs.messages[2].content

\* openai.ChatCompletion.create(**kwargs), on the attempt-th attempt of a row
\* whose script is s.
ChatCompletion_create(kwargs, s, attempt) ==
    IF attempt <= s.fails
    THEN [raised |-> TRUE, exc |-> s.exc, content |-> ""]
    ELSE [raised |-> FALSE, exc |-> NoException, content |-> Reply(kwargs)]

\* f"{e}"
str(e) == e.msg

\* A body without the try/except: the exception leaves the function.
completion_with_backoff_no_except(out) ==
    [raised |-> out.raised, exc |-> out.exc, answer |-> out.content]

\* The body of completion_with_backoff (lines 82-88): every Exception is
\* caught and becomes the answer, so the body never raises.
completion_with_backoff(out) ==
    [raised |-> FALSE, exc |-> NoException,
     answer |-> IF out.raised THEN str(out.exc) ELSE out.content]

\* ------------------------------------------------------------------ state

\* The adapter as the host constructs it: setup() has run with its defaults,
\* no forward call has been made, openai.api_key is unset.
Init ==
    /\ model = "gpt-3.5-turbo"
    /\ temperature = 0
    /\ config_key \in ConfigValues
    /\ environ_key \in EnvironValues
    /\ api_key = NoneVal
    /\ pc = "idle"
    /\ setup_args = <<>>
    /\ text_df = NoDf
    /\ prompt = NoneVal
    /\ results = <<>>
    /\ tries_left = tries
    /\ mock = <<>>
    /\ calls = <<>>
    /\ naps = <<>>
    /\ df = NoResult
    /\ error = NoError
    /\ last_setup = [model |-> "gpt-3.5-turbo", temperature |-> 0]
    /\ key_changed = FALSE

\* The host edits the configuration store between two calls.
set_config ==
    /\ pc = "idle"
    /\ \E v \in ConfigValues : config_key' = v
    /\ UNCHANGED <<model, temperature, environ_key, api_key, pc, setup_args,
                   text_df, prompt, results, tries_left, mock, calls, naps, df,
                   error, last_setup, key_changed>>

\* The host edits the process environment between two calls.
set_environ ==
    /\ pc = "idle"
    /\ \E v \in EnvironValues : environ_key' = v
    /\ UNCHANGED <<model, temperature, config_key, api_key, pc, setup_args,
                   text_df, prompt, results, tries_left, mock, calls, naps, df,
                   error, last_setup, key_changed>>

\* setup(*args), lines 45-52.
setup ==
    /\ pc = "idle"
    /\ \E args \in SetupArgs :
         /\ setup_args' = args
         /\ model' = self_after_setup(args).model
         /\ temperature' = self_after_setup(args).temperature
         /\ IF setup_raises(args)
            THEN /\ pc' = "setup_raised"
                 /\ error' = "AssertionError"
                 /\ UNCHANGED last_setup
            ELSE /\ pc' = "setup_returned"
                 /\ error' = NoError
                 /\ last_setup' = [model |-> setup_model(args),
                                   temperature |-> setup_temperature(args)]
    /\ UNCHANGED <<config_key, environ_key, api_key, text_df, prompt, results,
                   tries_left, mock, calls, naps, df, key_changed>>

\* forward(text_df) up to the loop, lines 77-111: the key is resolved, the
\* columns are read.  Raises TypeError, AssertionError or IndexError.
forward_call ==
    /\ pc = "idle"
    /\ \E t \in Batches :
         LET r == resolve_api_key
             e == IF r.error # NoError THEN r.error
                  ELSE IF prompt_raises(t) THEN "IndexError"
                  ELSE NoError
         IN  /\ text_df' = t
             /\ api_key' = r.key
             /\ key_changed' = (api_key \notin {NoneVal, ""} /\ r.key # api_key)
             /\ error' = e
             /\ pc' = IF e = NoError THEN "loop" ELSE "raised"
             /\ prompt' = IF e = NoError THEN prompt_of(t) ELSE NoneVal
    /\ results' = <<>>
    /\ tries_left' = tries
    /\ mock' = <<>>
    /\ calls' = <<>>
    /\ naps' = <<>>
    /\ df' = NoResult
    /\ UNCHANGED <<model, temperature, config_key, environ_key, setup_args,
                   last_setup>>

\* One attempt of completion_with_backoff(**params) for the next row, lines
\* 113-142 under the retry(tries=6, delay=20) of line 80: a body that raises is
\* run again after time.sleep(delay) while tries are left, and the exception
\* leaves forward when none is; a body that returns ends the row.
forward_row ==
    /\ pc = "loop"
    /\ Len(results) < Len(text_df.rows)
    /\ LET i == Len(results) + 1
           attempt == tries - tries_left + 1
       IN  \E s \in Scripts :
             /\ IF Len(mock) < i THEN mock' = Append(mock, s)
                ELSE s = mock[i] /\ mock' = mock
             /\ LET kwargs == params(prompt, queries(text_df)[i], content(text_df)[i])
                    out == ChatCompletion_create(kwargs, s, attempt)
                    ret == completion_with_backoff(out)
                IN  /\ calls' = Append(calls,
                                  [row |-> i, attempt |-> attempt,
                                   api_key |-> api_key, kwargs |-> kwargs,
                                   raised |-> out.raised, exc |-> out.exc,
                                   content |-> out.content])
                    /\ IF ~ret.raised
                       THEN /\ results' = Append(results, ret.answer)
                            /\ tries_left' = tries
                            /\ UNCHANGED <<pc, error, naps>>
                       ELSE IF tries_left - 1 = 0
                       THEN /\ pc' = "raised"
                            /\ error' = ret.exc.cls
                            /\ tries_left' = 0
                            /\ UNCHANGED <<results, naps>>
                       ELSE /\ tries_left' = tries_left - 1
                            /\ naps' = Append(naps, [row |-> i, seconds |-> delay])
                            /\ UNCHANGED <<pc, error, results>>
    /\ UNCHANGED <<model, temperature, config_key, environ_key, api_key,
                   setup_args, text_df, prompt, df, last_setup, key_changed>>

\* Lines 144-146: the loop is over, the output batch is built and returned.
forward_return ==
    /\ pc = "loop"
    /\ Len(results) = Len(text_df.rows)
    /\ df' = [columns |-> <<"response">>, rows |-> results]
    /\ pc' = "returned"
    /\ UNCHANGED <<model, temperature, config_key, environ_key, api_key,
                   setup_args, text_df, prompt, results, tries_left, mock, calls,
                   naps, error, last_setup, key_changed>>

\* The call is over for the host: the frame and its locals are gone; self and
\* openai.api_key stay.
exit ==
    /\ pc \in {"setup_returned", "setup_raised", "returned", "raised"}
    /\ pc' = "idle"
    /\ setup_args' = <<>>
    /\ text_df' = NoDf
    /\ prompt' = NoneVal
    /\ results' = <<>>
    /\ tries_left' = tries
    /\ mock' = <<>>
    /\ calls' = <<>>
    /\ naps' = <<>>
    /\ df' = NoResult
    /\ error' = NoError
    /\ key_changed' = FALSE
    /\ UNCHANGED <<model, temperature, config_key, environ_key, api_key,
                   last_setup>>

Next ==
    \/ set_config
    \/ set_environ
    \/ setup
    \/ forward_call
    \/ forward_row
    \/ forward_return
    \/ exit

Spec == Init /\ [][Next]_vars

\* ----------------------------------------------------------------- claims

\* The number of remote requests this forward call has issued for row r.
Attempts(r) == Cardinality({k \in 1..Len(calls) : calls[k].row = r})

\* The last remote request issued for row r.
LastCall(r) ==
    calls[CHOOSE k \in 1..Len(calls) :
            calls[k].row = r /\ \A j \in (k+1)..Len(calls) : calls[j].row # r]

\* The sleeps retry made for row r.
NapsOf(r) == SelectSeq(naps, LAMBDA n : n.row = r)

\* A forward call is in progress or has just ended.
InForward == pc \in {"loop", "returned", "raised"}

\* C1: a row whose remote call raises on its first two attempts and succeeds
\* on the third gets exactly 3 attempts, 20 apart, and its response is what
\* the third attempt returned.
C1_TwoFailuresThenSuccess ==
    \A r \in 1..Len(results) :
        mock[r].fails = 2 =>
            /\ Attempts(r) = 3
            /\ NapsOf(r) = <<[row |-> r, seconds |-> 20], [row |-> r, seconds |-> 20]>>
            /\ ~LastCall(r).raised
            /\ results[r] = LastCall(r).content

\* C2: once the key is resolved, forward returns, for every batch of 1 to 3
\* columns and zero or more rows, as many rows as it was given, row i being the
\* answer obtained for input row i.
C2_RowCountAndOrder ==
    (pc \in {"returned", "raised"} /\ api_key \notin {NoneVal, ""}) =>
        /\ pc = "returned"
        /\ Len(df.rows) = Len(text_df.rows)
        /\ \A i \in 1..Len(text_df.rows) :
              /\ LastCall(i).kwargs.messages[3].content
                    = "Complete the following task: " \o text_df.rows[i][1]
              /\ df.rows[i] = IF LastCall(i).raised THEN LastCall(i).exc.msg
                              ELSE LastCall(i).content

\* C3: a row whose remote call raises on every attempt does not make forward
\* raise: forward raises only before its first remote call, the row's response
\* is the text of the error, every later row is processed and the output has
\* all the rows.
C3_RowFailureNeverAborts ==
    /\ pc = "raised" =>
          calls = <<>> /\ error \in {"TypeError", "AssertionError", "IndexError"}
    /\ \A r \in 1..Len(results) :
          mock[r].fails >= 6 => LastCall(r).raised /\ results[r] = "Request timed out"
    /\ pc = "returned" =>
          /\ Len(df.rows) = Len(text_df.rows)
          /\ \A r \in 1..Len(text_df.rows) : Attempts(r) >= 1

\* C3's case: the first row failed on every attempt and a later row was
\* processed and answered.
C3_Witness ==
    /\ pc = "returned"
    /\ Len(df.rows) = 2
    /\ mock[1].fails = 6
    /\ df.rows[1] = "Request timed out"
    /\ ~LastCall(2).raised

\* C4: setup succeeds exactly when the model, given or defaulted to
\* gpt-3.5-turbo, is one of the six supported ones; otherwise it raises
\* AssertionError at once.
C4_SetupValidation ==
    pc \in {"setup_returned", "setup_raised"} =>
        LET m == IF setup_args = <<>> THEN "gpt-3.5-turbo" ELSE setup_args[1]
        IN  /\ pc = "setup_returned" <=>
                  m \in {"gpt-4", "gpt-4-0314", "gpt-4-32k", "gpt-4-32k-0314",
                         "gpt-3.5-turbo", "gpt-3.5-turbo-0301"}
            /\ pc = "setup_returned" => model = m /\ error = NoError
            /\ pc = "setup_raised" => error = "AssertionError"

\* C4's case: a setup with an unsupported model has just failed.
C4_Witness ==
    /\ pc = "setup_raised"
    /\ setup_args # <<>>
    /\ setup_args[1] = "text-davinci-003"

\* C5: with no key in the configuration store (empty or None) and none in the
\* environment (empty or missing), forward raises and has issued no remote
\* request, whatever the batch.
C5_NoKeyNoRemoteCall ==
    (InForward /\ config_key \in {NoneVal, ""} /\ environ_key \in {Absent, ""}) =>
        /\ pc = "raised"
        /\ error \in {"TypeError", "AssertionError"}
        /\ calls = <<>>

\* C5's case: forward was given rows, found no key and failed.
C5_Witness ==
    /\ pc = "raised"
    /\ config_key = ""
    /\ environ_key = Absent
    /\ Len(text_df.rows) = 2

\* C6: every request of a batch with a third column has row 0's third-column
\* value as its system message; every request of a narrower batch has the
\* default one.
C6_SystemMessage ==
    \A k \in 1..Len(calls) :
        calls[k].kwargs.messages[1] =
            [role |-> "system",
             content |-> IF text_df.columns = 3
                         THEN text_df.rows[1][3]
                         ELSE "You are a helpful assistant that accomplishes user tasks."]

\* C6's case: a request for a later row whose own third column differs from
\* row 0's.
C6_Witness ==
    /\ text_df.columns = 3
    /\ \E k \in 1..Len(calls) :
          /\ calls[k].row = 2
          /\ text_df.rows[2][3] # text_df.rows[1][3]

\* C7: every request carries a system message, then the context message of its
\* row, then the task message of its row; the context is column 1 of the row,
\* or the query itself in a one-column batch.
C7_Messages ==
    \A k \in 1..Len(calls) :
        LET row == text_df.rows[calls[k].row]
            m == calls[k].kwargs.messages
        IN  /\ Len(m) = 3
            /\ m[1].role = "system"
            /\ m[2] = [role |-> "user",
                       content |-> "Here is some context : "
                                      \o (IF text_df.columns >= 2 THEN row[2] ELSE row[1])]
            /\ m[3] = [role |-> "user",
                       content |-> "Complete the following task: " \o row[1]]

\* C7's case: a request of a one-column batch, whose context is the query.
C7_Witness ==
    /\ text_df.columns = 1
    /\ \E k \in 1..Len(calls) :
          /\ calls[k].row = 2
          /\ calls[k].kwargs.messages[2].content = "Here is some context : summarize"
          /\ calls[k].kwargs.messages[3].content = "Complete the following task: summarize"

\* C8: a raising attempt is followed by another until one succeeds or 6 have
\* been made: no row gets more than 6 attempts, and a row's response is the
\* error text only after 6 attempts.
C8_SixAttemptBudget ==
    \A r \in 1..Len(results) :
        /\ Attempts(r) <= 6
        /\ LastCall(r).raised => Attempts(r) = 6

\* C9: the key every request of a forward call carries is the one current at
\* that call: the store's value when it is not empty, the environment's
\* otherwise; never one an earlier call resolved.
C9_KeyResolvedPerCall ==
    \A k \in 1..Len(calls) :
        /\ config_key # NoneVal
        /\ config_key # "" => calls[k].api_key = config_key
        /\ config_key = "" => calls[k].api_key = environ_key
        /\ calls[k].api_key = api_key

\* C9's case: a request made with a key that is not the one the previous
\* forward call had resolved.
C9_Witness ==
    /\ key_changed
    /\ calls # <<>>
    /\ calls[1].api_key = "sk-environ"

\* C10: self.model and self.temperature are those of the most recent
\* successful setup, whatever forward calls and failed setups came since, and
\* every request carries them.
C10_ConfigurationFrame ==
    /\ model = last_setup.model
    /\ temperature = last_setup.temperature
    /\ \A k \in 1..Len(calls) :
          /\ calls[k].kwargs.model = last_setup.model
          /\ calls[k].kwargs.temperature = last_setup.temperature

\* C10's case: a request made after a setup that changed both fields.
C10_Witness ==
    /\ calls # <<>>
    /\ last_setup = [model |-> "gpt-4-32k", temperature |-> 1]

====
